---- MODULE Spec2Model ----
(***************************************************************************)
(* A model of slate_detector.py: the frame classifier (is_slate_frame),    *)
(* the per-video scan (process_video), the process-pool fan-out            *)
(* (process_videos_parallel) and the aggregation (save_metadata).          *)
(*                                                                         *)
(* Numbers.  A frame is abstracted to the three pixel counts the           *)
(* classifier looks at: nb pixels of luminance 0..29, nw pixels above 200  *)
(* and ne pixels Canny marks as an edge, out of FramePixels pixels.  A     *)
(* confidence c of the program is kept as the integer c * Scale with       *)
(* Scale = 10 * FramePixels, which is exact for every term of the          *)
(* confidence formula; a threshold t is kept as t * Scale likewise.        *)
(***************************************************************************)
EXTENDS Integers, Sequences, FiniteSets, TLC

\* ------------------------------------------------------------------ bounds
FramePixels == 20
MaxFrames == 3
NVideos == 2
MaxWorkers == 2

Scale == 10 * FramePixels

Min2(a, b) == IF a <= b THEN a ELSE b
Max2(a, b) == IF a >= b THEN a ELSE b
Abs(a) == IF a >= 0 THEN a ELSE 0 - a

\* Python's None for a frame, and a frame as <<nb, nw, ne>>.
NoFrame == <<>>
AllFrames ==
  { <<nb, nw, ne>> : nb \in 0..FramePixels, nw \in 0..FramePixels, ne \in 0..FramePixels }
FrameSpace == { f \in AllFrames : f[1] + f[2] <= FramePixels }

\* ------------------------------------------------- is_slate_frame (70-125)
\* black_pixels_ratio > 0.5 and 0.005 < white_pixels_ratio < 0.4
GateNoWhiteCap(frame) ==
  /\ 2 * frame[1] > FramePixels
  /\ 200 * frame[2] > FramePixels

Gate(frame) ==
  /\ 2 * frame[1] > FramePixels
  /\ 200 * frame[2] > FramePixels
  /\ 5 * frame[2] < 2 * FramePixels

\* Scale * (b*0.4 + (1 - abs(w - 0.1)*5)*0.4 + e*0.2), before min(., 1.0)
RawConfidence(frame) ==
  4 * frame[1] + 4 * FramePixels - 2 * Abs(10 * frame[2] - FramePixels) + 2 * frame[3]

is_slate_frame(frame) ==
  IF frame = NoFrame
    THEN [is_slate |-> FALSE, confidence |-> 0]
    ELSE IF Gate(frame)
      THEN [is_slate |-> TRUE, confidence |-> Min2(RawConfidence(frame), Scale)]
      ELSE [is_slate |-> FALSE, confidence |-> 0]

\* --------------------------------------------------------- the environment
\* The three frames the model's videos are cut from: a uniformly black frame
\* (no slate), a slate of low confidence and a slate of high confidence.
BlackFrame == <<FramePixels, 0, 0>>
WeakSlate == <<(FramePixels \div 2) + 1, 7, 0>>
StrongSlate == <<FramePixels - 2, 2, FramePixels \div 2>>
FrameKinds == {BlackFrame, WeakSlate, StrongSlate}

RECURSIVE SeqsUpTo(_, _)
SeqsUpTo(S, n) ==
  IF n = 0 THEN {<<>>}
  ELSE LET shorter == SeqsUpTo(S, n - 1)
       IN shorter \cup { Append(q, x) : q \in { r \in shorter : Len(r) = n - 1 }, x \in S }

Videos == 1..NVideos
\* The detector built by main() is instance 0; the copy of it that a submitted
\* task is run on is the instance numbered as the task's video.
Instances == 0..NVideos

\* video_path.parent: videos 1 and 2 share a folder, 3 and 4 the next, ...
Folder(v) == (v + 1) \div 2

\* hashlib.md5(str(video_path).encode()).hexdigest()[:8]: a digest cut to 8 hex
\* digits has 16^8 values for an unbounded set of paths, so it is not injective.
\* Paths 1 and 2 are a colliding pair, as "/videos/reel_086203.mp4" and
\* "/videos/reel_096183.mp4" are (both give 94478505); every other path has a
\* digest of its own.
VideoHash(v) == IF v <= 2 THEN 0 ELSE v

\* f"slate_{video_hash}_{best_frame_number:04d}.png"
PngName(v, frame_number) == <<VideoHash(v), frame_number>>
\* result['png_filename'] = None, and the key not being set at all
PngNone == <<0>>
Absent == <<>>

ThresholdDefault == (8 * Scale) \div 10
Thresholds == {0, ThresholdDefault}
FpsDefault == 30

VARIABLES
  frame, cls,            \* is_slate_frame: its argument, its return value
  self,                  \* frames_to_check, threshold, target_frame, once_per_folder
  saved_folders,         \* self.saved_folders of every detector instance
  max_workers,
  video_files,           \* the videos found under the input folder
  video,                 \* what cv2.VideoCapture finds in each file
  inst,                  \* the detector instance a task's process_video runs on
  pc,                    \* where each video's unit of work stands
  cap,                   \* each task's cv2.VideoCapture
  reads,                 \* calls of cap.read() made by each task
  loc,                   \* the locals of process_video
  result,                \* the result dict of process_video
  opc,                   \* where process_videos_parallel / main stand
  uncollected,           \* the futures as_completed has not yielded yet
  results,               \* the list process_videos_parallel builds
  files,                 \* PNG files in the output folder
  metadata, mapping      \* slate_metadata.json, slate_mapping.json

vars == <<frame, cls, self, saved_folders, max_workers, video_files, video, inst,
          pc, cap, reads, loc, result, opc, uncollected, results, files, metadata,
          mapping>>

taskVars == <<pc, cap, reads, loc, result>>

\* result as built at lines 138-144; `keys` is the set of keys of the dict.
NewResult(v) ==
  [ video_path |-> v, slate_found |-> FALSE, confidence |-> 0, frame_number |-> -1,
    error |-> "None", timestamp |-> Absent, png_filename |-> Absent,
    keys |-> {"video_path", "slate_found", "confidence", "frame_number", "error"} ]

\* the dict the orchestrator builds for a future that raised (lines 269-273)
FailedResult(v) ==
  [ video_path |-> v, slate_found |-> FALSE, confidence |-> 0, frame_number |-> -1,
    error |-> "exception", timestamp |-> Absent, png_filename |-> Absent,
    keys |-> {"video_path", "slate_found", "error"} ]

NewLoc ==
  [ fps |-> FpsDefault, total_frames |-> 0, target_frame |-> 0,
    best_slate_frame |-> NoFrame, best_confidence |-> 0, best_frame_number |-> -1,
    frames_to_check |-> 0, frame_num |-> 0 ]

NewCap == [held |-> FALSE, pos |-> 0]

\* ---------------------------------------------------- process_video (127-240)
\* cap.read() at position p of video v: ret, and the frame when ret.
ReadOk(v, p) == p >= 0 /\ p < Len(video[v].frames)
FrameAt(v, p) == IF ReadOk(v, p) THEN video[v].frames[p + 1] ELSE NoFrame

\* cap.set(cv2.CAP_PROP_POS_FRAMES, n): for n < 0 (total_frames reported as 0)
\* the backend either rejects the position, and the read fails, or starts at 0.
SeekOutcomes(n) == IF n >= 0 THEN {n} ELSE {-1, 0}

\* int(fps * 2)
TwoSeconds(fps) == 2 * fps

\* min(self.frames_to_check, int(fps * 2), total_frames), line 181
ScanBoundNoTotal(ftc, fps, total) == Min2(ftc, TwoSeconds(fps))
ScanBound(ftc, fps, total) == Min2(Min2(ftc, TwoSeconds(fps)), total)

Running == { v \in video_files : pc[v] \in {"open", "probe", "scan", "release", "persist"} }

\* Lines 137-144: a worker takes the task and process_video builds its result.
Start(v) ==
  /\ pc[v] = "queued"
  /\ Cardinality(Running) < max_workers
  /\ pc' = [pc EXCEPT ![v] = "open"]
  /\ result' = [result EXCEPT ![v] = NewResult(v)]
  /\ loc' = [loc EXCEPT ![v] = NewLoc]
  /\ cap' = [cap EXCEPT ![v] = NewCap]
  /\ reads' = [reads EXCEPT ![v] = 0]
  /\ UNCHANGED <<frame, cls, self, saved_folders, max_workers, video_files, video, inst,
                 opc, uncollected, results, files, metadata, mapping>>

\* Lines 127-144: process_video called on the detector itself (instance 0),
\* once the call before it has returned.
Call(v) ==
  /\ opc = "direct"
  /\ pc[v] = "idle"
  /\ Running = {}
  /\ pc' = [pc EXCEPT ![v] = "open"]
  /\ result' = [result EXCEPT ![v] = NewResult(v)]
  /\ loc' = [loc EXCEPT ![v] = NewLoc]
  /\ cap' = [cap EXCEPT ![v] = NewCap]
  /\ reads' = [reads EXCEPT ![v] = 0]
  /\ UNCHANGED <<frame, cls, self, saved_folders, max_workers, video_files, video, inst,
                 opc, uncollected, results, files, metadata, mapping>>

\* Lines 148-164: open the file; on failure return at once, else read the
\* properties and reset the best candidate.
Open(v) ==
  /\ pc[v] = "open"
  /\ IF ~video[v].opens
       THEN /\ result' = [result EXCEPT ![v].error = "Failed to open video file"]
            /\ pc' = [pc EXCEPT ![v] = "done"]
            /\ UNCHANGED <<cap, loc>>
       ELSE /\ cap' = [cap EXCEPT ![v] = [held |-> TRUE, pos |-> 0]]
            /\ loc' = [loc EXCEPT ![v] =
                 [ NewLoc EXCEPT
                     !.fps = IF video[v].fps = 0 THEN FpsDefault ELSE video[v].fps,
                     !.total_frames = video[v].total_frames,
                     !.target_frame = Min2(self.target_frame, video[v].total_frames - 1) ]]
            /\ pc' = [pc EXCEPT ![v] = "probe"]
            /\ UNCHANGED result
  /\ UNCHANGED <<frame, cls, self, saved_folders, max_workers, video_files, video, inst,
                 reads, opc, uncollected, results, files, metadata, mapping>>

\* The guard of line 171 and of line 179.
ProbeAccepts(c) == c.is_slate /\ c.confidence >= self.threshold
NeedsFallbackAlways(best_confidence) == TRUE
NeedsFallback(best_confidence) == best_confidence < self.threshold

\* Lines 167-181: the targeted probe, then the decision to fall back and, if
\* so, the seek to frame 0 and the bound of the scan.
Probe(v) ==
  /\ pc[v] = "probe"
  /\ \E p \in SeekOutcomes(loc[v].target_frame) :
       LET ret == ReadOk(v, p)
           c == is_slate_frame(FrameAt(v, p))
           hit == ret /\ ProbeAccepts(c)
           best == IF hit THEN c.confidence ELSE loc[v].best_confidence
           bound == ScanBound(self.frames_to_check, loc[v].fps, loc[v].total_frames)
           probed == [ loc[v] EXCEPT
                         !.best_slate_frame = IF hit THEN FrameAt(v, p) ELSE @,
                         !.best_confidence = best,
                         !.best_frame_number = IF hit THEN loc[v].target_frame ELSE @ ]
       IN /\ reads' = [reads EXCEPT ![v] = @ + 1]
          /\ IF NeedsFallback(best)
               THEN /\ loc' = [loc EXCEPT ![v] =
                                 [probed EXCEPT !.frames_to_check = bound, !.frame_num = 0]]
                    /\ cap' = [cap EXCEPT ![v].pos = 0]
                    /\ pc' = [pc EXCEPT ![v] = IF bound > 0 THEN "scan" ELSE "release"]
               ELSE /\ loc' = [loc EXCEPT ![v] = probed]
                    /\ cap' = [cap EXCEPT ![v].pos = IF ret THEN p + 1 ELSE p]
                    /\ pc' = [pc EXCEPT ![v] = "release"]
  /\ UNCHANGED <<frame, cls, self, saved_folders, max_workers, video_files, video, inst,
                 result, opc, uncollected, results, files, metadata, mapping>>

\* The guard of line 190.
BetterOrEqual(c, best_confidence) == c.is_slate /\ c.confidence >= best_confidence
Better(c, best_confidence) == c.is_slate /\ c.confidence > best_confidence

\* Scan with `continue` in place of `break` at line 186.
ScanContinue(v) ==
  /\ pc[v] = "scan"
  /\ LET p == cap[v].pos
         ret == ReadOk(v, p)
         c == is_slate_frame(FrameAt(v, p))
         n == loc[v].frame_num
         better == ret /\ Better(c, loc[v].best_confidence)
     IN /\ reads' = [reads EXCEPT ![v] = @ + 1]
        /\ cap' = [cap EXCEPT ![v].pos = IF ret THEN p + 1 ELSE p]
        /\ loc' = [loc EXCEPT
             ![v].best_slate_frame = IF better THEN FrameAt(v, p) ELSE @,
             ![v].best_confidence = IF better THEN c.confidence ELSE @,
             ![v].best_frame_number = IF better THEN n ELSE @,
             ![v].frame_num = n + 1]
        /\ pc' = [pc EXCEPT ![v] =
             IF n + 1 < loc[v].frames_to_check THEN "scan" ELSE "release"]
  /\ UNCHANGED <<frame, cls, self, saved_folders, max_workers, video_files, video, inst,
                 result, opc, uncollected, results, files, metadata, mapping>>

\* Lines 183-193: one iteration of the fallback loop.
Scan(v) ==
  /\ pc[v] = "scan"
  /\ LET p == cap[v].pos
         ret == ReadOk(v, p)
         c == is_slate_frame(FrameAt(v, p))
         n == loc[v].frame_num
     IN /\ reads' = [reads EXCEPT ![v] = @ + 1]
        /\ IF ~ret
             THEN /\ pc' = [pc EXCEPT ![v] = "release"]
                  /\ UNCHANGED <<loc, cap>>
             ELSE /\ cap' = [cap EXCEPT ![v].pos = p + 1]
                  /\ loc' = [loc EXCEPT
                       ![v].best_slate_frame =
                           IF Better(c, loc[v].best_confidence) THEN FrameAt(v, p) ELSE @,
                       ![v].best_confidence =
                           IF Better(c, loc[v].best_confidence) THEN c.confidence ELSE @,
                       ![v].best_frame_number =
                           IF Better(c, loc[v].best_confidence) THEN n ELSE @,
                       ![v].frame_num = n + 1]
                  /\ pc' = [pc EXCEPT ![v] =
                       IF n + 1 < loc[v].frames_to_check THEN "scan" ELSE "release"]
  /\ UNCHANGED <<frame, cls, self, saved_folders, max_workers, video_files, video, inst,
                 result, opc, uncollected, results, files, metadata, mapping>>

\* The guard of line 203.
Accepted(best_confidence) == best_confidence >= self.threshold

\* Lines 213-219: should_save, and the folder set afterwards.
ShouldSave(i, v) == ~self.once_per_folder \/ Folder(v) \notin saved_folders[i]
SavedAfterAlways(i, v) == saved_folders[i] \cup {Folder(v)}
SavedAfter(i, v) ==
  IF self.once_per_folder /\ Folder(v) \notin saved_folders[i]
    THEN saved_folders[i] \cup {Folder(v)}
    ELSE saved_folders[i]

\* Lines 195-219 and 233-234: release the handle, decide the outcome, and for
\* an accepted slate ask the folder set whether the image is to be saved.
Release(v) ==
  /\ pc[v] = "release"
  /\ cap' = [cap EXCEPT ![v].held = FALSE]
  /\ IF Accepted(loc[v].best_confidence)
       THEN LET found == [ result[v] EXCEPT
                             !.slate_found = TRUE,
                             !.confidence = loc[v].best_confidence,
                             !.frame_number = loc[v].best_frame_number,
                             !.timestamp = <<loc[v].best_frame_number, loc[v].fps>>,
                             !.keys = @ \cup {"timestamp"} ]
            IN /\ saved_folders' = [saved_folders EXCEPT ![inst[v]] = SavedAfter(inst[v], v)]
               /\ IF ShouldSave(inst[v], v)
                    THEN /\ result' = [result EXCEPT ![v] = found]
                         /\ pc' = [pc EXCEPT ![v] = "persist"]
                    ELSE /\ result' = [result EXCEPT ![v] =
                              [found EXCEPT !.png_filename = PngNone,
                                            !.keys = @ \cup {"png_filename"}]]
                         /\ pc' = [pc EXCEPT ![v] = "done"]
       ELSE /\ pc' = [pc EXCEPT ![v] = "done"]
            /\ UNCHANGED <<result, saved_folders>>
  /\ UNCHANGED <<frame, cls, self, max_workers, video_files, video, inst,
                 reads, loc, opc, uncollected, results, files, metadata, mapping>>

\* Lines 221-232 and 236-238: name the image and write it.  cv2.imwrite raises
\* on an empty image (best_slate_frame is None), which the handler at line 236
\* turns into the result's error.
Persist(v) ==
  /\ pc[v] = "persist"
  /\ IF loc[v].best_slate_frame = NoFrame
       THEN /\ result' = [result EXCEPT ![v].error = "exception"]
            /\ UNCHANGED files
       ELSE LET png_filename == PngName(v, loc[v].best_frame_number)
            IN /\ files' = files \cup {png_filename}
               /\ result' = [result EXCEPT ![v].png_filename = png_filename,
                                           ![v].keys = @ \cup {"png_filename"}]
  /\ pc' = [pc EXCEPT ![v] = "done"]
  /\ UNCHANGED <<frame, cls, self, saved_folders, max_workers, video_files, video, inst,
                 cap, reads, loc, opc, uncollected, results, metadata, mapping>>

\* Lines 236-240: a statement of the try block raises (the decoder on opening,
\* seeking or reading, the classifier on a frame it cannot convert, the image
\* encoder on writing); the handler records the error and the result is
\* returned.  A read that raises may or may not have been counted.
TryBlock == {"open", "probe", "scan", "persist"}
Raise(v) ==
  /\ pc[v] \in TryBlock
  /\ result' = [result EXCEPT ![v].error = "exception"]
  /\ \E r \in (IF pc[v] \in {"probe", "scan"} THEN {0, 1} ELSE {0}) :
       reads' = [reads EXCEPT ![v] = @ + r]
  /\ pc' = [pc EXCEPT ![v] = "done"]
  /\ UNCHANGED <<frame, cls, self, saved_folders, max_workers, video_files, video, inst,
                 cap, loc, opc, uncollected, results, files, metadata, mapping>>

\* --------------------------------------- process_videos_parallel (242-276)
\* Lines 253-258: every video is submitted as self.process_video; the bound
\* method is pickled with the task, so each task runs on its own copy of the
\* detector as it is at submission.
Submit ==
  /\ opc = "submit"
  /\ pc' = [v \in Videos |-> IF v \in video_files THEN "queued" ELSE pc[v]]
  /\ inst' = [v \in Videos |-> IF v \in video_files THEN v ELSE inst[v]]
  /\ saved_folders' = [i \in Instances |->
                         IF i \in video_files THEN saved_folders[0] ELSE saved_folders[i]]
  /\ uncollected' = video_files
  /\ opc' = "collect"
  /\ UNCHANGED <<frame, cls, self, max_workers, video_files, video,
                 cap, reads, loc, result, results, files, metadata, mapping>>

\* The unit of work raises outside process_video's own handler (line 137, or
\* the worker failing to run or to return the task): the future holds the
\* exception.
UnitFail(v) ==
  /\ pc[v] = "queued"
  /\ pc' = [pc EXCEPT ![v] = "failed"]
  /\ UNCHANGED <<frame, cls, self, saved_folders, max_workers, video_files, video, inst,
                 cap, reads, loc, result, opc, uncollected, results, files, metadata, mapping>>

\* Lines 262-274: as_completed yields a finished future; its result, or the
\* error dict built for its exception, is appended.
Collected(v) == IF pc[v] = "failed" THEN FailedResult(v) ELSE result[v]
YieldDropFailed(v) == IF pc[v] = "failed" THEN <<>> ELSE <<result[v]>>
Yield(v) == <<Collected(v)>>
Collect(v) ==
  /\ opc = "collect"
  /\ v \in uncollected
  /\ pc[v] \in {"done", "failed"}
  /\ results' = results \o Yield(v)
  /\ uncollected' = uncollected \ {v}
  /\ UNCHANGED <<frame, cls, self, saved_folders, max_workers, video_files, video, inst,
                 pc, cap, reads, loc, result, opc, files, metadata, mapping>>

\* ------------------------------------------------- save_metadata (278-310)
RECURSIVE CountSlates(_)
CountSlates(rs) ==
  IF rs = <<>> THEN 0
  ELSE (IF Head(rs).slate_found THEN 1 ELSE 0) + CountSlates(Tail(rs))

\* result.get('png_filename'): falsy when the key is missing or None
HasPng(r) == r.png_filename # Absent /\ r.png_filename # PngNone
Mapped(r) == r.slate_found /\ HasPng(r)

MapEntry(r) ==
  [ video_path |-> r.video_path, frame_number |-> r.frame_number,
    timestamp |-> r.timestamp, confidence |-> r.confidence ]

\* mapping[key] = value
Put(m, key, value) == [k \in DOMAIN m \cup {key} |-> IF k = key THEN value ELSE m[k]]

\* Lines 296-304: the loop over the results, in list order.
RECURSIVE BuildMapping(_, _)
BuildMapping(rs, m) ==
  IF rs = <<>> THEN m
  ELSE BuildMapping(Tail(rs),
         IF Mapped(Head(rs)) THEN Put(m, Head(rs).png_filename, MapEntry(Head(rs))) ELSE m)

EmptyMap == [k \in {} |-> 0]
NotWritten == <<>>

\* Lines 276, 280-293: the run is over when every future has been collected;
\* slate_metadata.json is written.
WriteMetadata ==
  /\ opc = "collect"
  /\ uncollected = {}
  /\ metadata' = << [ total_videos_scanned |-> Len(results),
                      slates_found |-> CountSlates(results),
                      videos |-> results ] >>
  /\ opc' = "metadata"
  /\ UNCHANGED <<frame, cls, self, saved_folders, max_workers, video_files, video, inst,
                 pc, cap, reads, loc, result, uncollected, results, files, mapping>>

\* Lines 295-310: slate_mapping.json is written.
WriteMapping ==
  /\ opc = "metadata"
  /\ mapping' = << BuildMapping(results, EmptyMap) >>
  /\ opc' = "saved"
  /\ UNCHANGED <<frame, cls, self, saved_folders, max_workers, video_files, video, inst,
                 pc, cap, reads, loc, result, uncollected, results, files, metadata>>

\* Line 170 / line 188 taken alone: is_slate_frame applied to a frame.
Classify ==
  /\ opc = "classify"
  /\ cls = <<>>
  /\ cls' = << is_slate_frame(frame) >>
  /\ UNCHANGED <<frame, self, saved_folders, max_workers, video_files, video, inst,
                 pc, cap, reads, loc, result, opc, uncollected, results, files, metadata, mapping>>

\* ------------------------------------------------------------ initial states
ClosedVideo == [opens |-> FALSE, fps |-> 0, total_frames |-> 0, frames |-> <<>>]

\* What a file can hold: it may not open; the frame rate may be unavailable
\* (0, replaced by 30 at line 155); the reported frame count and the frames the
\* decoder really delivers are independent.
VideoSpace(n) ==
  {ClosedVideo} \cup
  [opens : {TRUE}, fps : {0, 1}, total_frames : 0..n, frames : SeqsUpTo(FrameKinds, n)]

\* The files of a whole run: unopenable, one black frame, one slate frame.
RunVideos ==
  {ClosedVideo} \cup
  [opens : {TRUE}, fps : {0}, total_frames : {1}, frames : {<<BlackFrame>>, <<StrongSlate>>}]

\* Lines 36-58 and 250: a detector as constructed, no task submitted.
InitCommon ==
  /\ saved_folders = [i \in Instances |-> {}]
  /\ inst = [v \in Videos |-> 0]
  /\ pc = [v \in Videos |-> "idle"]
  /\ cap = [v \in Videos |-> NewCap]
  /\ reads = [v \in Videos |-> 0]
  /\ loc = [v \in Videos |-> NewLoc]
  /\ result = [v \in Videos |-> NewResult(v)]
  /\ uncollected = {}
  /\ results = <<>>
  /\ files = {}
  /\ metadata = NotWritten
  /\ mapping = NotWritten
  /\ cls = <<>>

\* A run over NVideos files, with the default threshold.
Init ==
  /\ InitCommon
  /\ frame = NoFrame
  /\ opc = "submit"
  /\ video_files = Videos
  /\ max_workers \in 1..MaxWorkers
  /\ self \in [frames_to_check : {1}, threshold : {ThresholdDefault},
               target_frame : {0}, once_per_folder : BOOLEAN]
  /\ video \in [Videos -> RunVideos]

\* A run over one file, over every configuration and content within MaxFrames.
InitScan ==
  /\ InitCommon
  /\ frame = NoFrame
  /\ opc = "submit"
  /\ video_files = {1}
  /\ max_workers = 1
  /\ self \in [frames_to_check : 0..MaxFrames, threshold : Thresholds,
               target_frame : 0..MaxFrames, once_per_folder : BOOLEAN]
  /\ \E x \in VideoSpace(MaxFrames) :
       video = [v \in Videos |-> IF v = 1 THEN x ELSE ClosedVideo]

\* The classifier alone, over every frame of FramePixels pixels and None.
InitClassify ==
  /\ InitCommon
  /\ frame \in FrameSpace \cup {NoFrame}
  /\ opc = "classify"
  /\ video_files = {}
  /\ max_workers = 1
  /\ self = [frames_to_check |-> 0, threshold |-> ThresholdDefault,
             target_frame |-> 0, once_per_folder |-> FALSE]
  /\ video = [v \in Videos |-> ClosedVideo]

\* A detector used without the pool, for one file after another.
InitSeq ==
  /\ InitCommon
  /\ frame = NoFrame
  /\ opc = "direct"
  /\ video_files = Videos
  /\ max_workers = 1
  /\ self \in [frames_to_check : {1}, threshold : Thresholds,
               target_frame : {0}, once_per_folder : BOOLEAN]
  /\ video \in [Videos -> RunVideos]

Next ==
  \/ Submit
  \/ \E v \in video_files : Start(v)
  \/ \E v \in video_files : UnitFail(v)
  \/ \E v \in video_files : Open(v)
  \/ \E v \in video_files : Probe(v)
  \/ \E v \in video_files : Scan(v)
  \/ \E v \in video_files : Release(v)
  \/ \E v \in video_files : Persist(v)
  \/ \E v \in video_files : Raise(v)
  \/ \E v \in video_files : Collect(v)
  \/ WriteMetadata
  \/ WriteMapping

Spec == Init /\ [][Next]_vars
SpecScan == InitScan /\ [][Next]_vars
SpecClassify == InitClassify /\ [][Classify]_vars

NextSeq ==
  \/ \E v \in video_files : Call(v)
  \/ \E v \in video_files : Open(v)
  \/ \E v \in video_files : Probe(v)
  \/ \E v \in video_files : Scan(v)
  \/ \E v \in video_files : Release(v)
  \/ \E v \in video_files : Persist(v)
  \/ \E v \in video_files : Raise(v)

SpecSeq == InitSeq /\ [][NextSeq]_vars

\* ===================================================================== claims
Entries == 1..Len(results)
EntriesOf(v) == { i \in Entries : results[i].video_path = v }
\* the unit of work ended without an error of any kind
Clean(r) == r.error = "None"

\* C1 (stated as claimed; the code violates it).  In once-per-folder mode, of
\* the videos of one folder whose results report an accepted slate and no
\* error, exactly one carries a non-null png_filename, as soon as two of them
\* have been collected.
C1_OnePersistedPerFolder ==
  self.once_per_folder =>
    \A f \in { Folder(v) : v \in video_files } :
      LET accepted == { i \in Entries : /\ Folder(results[i].video_path) = f
                                        /\ results[i].slate_found
                                        /\ Clean(results[i]) }
      IN Cardinality(accepted) >= 2 =>
           Cardinality({ i \in accepted : HasPng(results[i]) }) = 1

C3_FailureClearsSlateFound ==
  /\ \A v \in video_files :
       (pc[v] = "done" /\ result[v].error = "exception") => ~result[v].slate_found
  /\ \A i \in Entries :
       pc[results[i].video_path] = "failed" => ~Clean(results[i]) /\ ~results[i].slate_found

\* C4 (stated as claimed; violated).  The reads of a video never exceed
\* max(target_frame + 1, min(frames_to_check, 2 * frame_rate, total_frames)).
C4_ReadsWithinClaimedBound ==
  \A v \in video_files :
    reads[v] <= Max2(self.target_frame + 1,
                     Min2(Min2(self.frames_to_check, 2 * loc[v].fps), loc[v].total_frames))

\* C4 as amended.  The reads of a video never exceed
\* 1 + max(0, min(frames_to_check, 2 * frame_rate, total_frames)): one for the
\* probe and the scan bound for the fallback.
C4_ReadsWithinProbePlusScan ==
  \A v \in video_files :
    reads[v] <= 1 + Max2(0, Min2(Min2(self.frames_to_check, 2 * loc[v].fps),
                                 loc[v].total_frames))

\* C4's case: probe and a full fallback scan of two frames or more, which is
\* more than the claimed bound allows.
C4_Witness ==
  \E v \in video_files :
    /\ pc[v] = "done"
    /\ loc[v].frames_to_check >= 2
    /\ reads[v] = 1 + loc[v].frames_to_check
    /\ reads[v] > Max2(self.target_frame + 1, loc[v].frames_to_check)

\* the probe of v reads a frame that is a slate of confidence >= threshold
ProbeIndex(v) == Min2(self.target_frame, video[v].total_frames - 1)
ProbeHits(v) ==
  /\ video[v].opens
  /\ ProbeIndex(v) >= 0
  /\ ProbeIndex(v) < Len(video[v].frames)
  /\ LET f == video[v].frames[ProbeIndex(v) + 1]
     IN /\ 2 * f[1] > FramePixels /\ 200 * f[2] > FramePixels /\ 5 * f[2] < 2 * FramePixels
        /\ Min2(RawConfidence(f), Scale) >= self.threshold

\* C5.  When the frame at the probe index is a slate of confidence >=
\* threshold, the video is read at most once, the fallback scan is never
\* entered, and a result returned without error reports the probe index and
\* the probe frame's confidence.
C5_ProbeShortCircuits ==
  \A v \in video_files :
    ProbeHits(v) =>
      /\ reads[v] <= 1
      /\ pc[v] # "scan"
      /\ (pc[v] \in {"persist", "done"} /\ Clean(result[v])) =>
           /\ result[v].slate_found
           /\ result[v].frame_number = ProbeIndex(v)
           /\ result[v].confidence =
                Min2(RawConfidence(video[v].frames[ProbeIndex(v) + 1]), Scale)

\* C5's case: a video with frames before the probe index that the fallback
\* would read, accepted on the probe alone.
C5_Witness ==
  \E v \in video_files :
    /\ ProbeHits(v)
    /\ ProbeIndex(v) >= 1
    /\ self.frames_to_check >= 2
    /\ pc[v] = "done"
    /\ reads[v] = 1
    /\ result[v].slate_found
    /\ HasPng(result[v])

\* C6 (stated as claimed; the code violates it).  Once the mapping is written,
\* every key of it is the png_filename of exactly one result, which has
\* slate_found = true; no result with slate_found = false is in the mapping;
\* and every result with slate_found = true and a non-null png_filename has an
\* entry of its own, holding its video_path.
C6_MappingMatchesResults ==
  opc = "saved" =>
    LET m == mapping[1]
    IN /\ \A k \in DOMAIN m :
            /\ Cardinality({ i \in Entries : results[i].png_filename = k }) = 1
            /\ \A i \in Entries : results[i].png_filename = k => results[i].slate_found
       /\ \A i \in Entries :
            ~results[i].slate_found =>
              \A k \in DOMAIN m : m[k].video_path # results[i].video_path
       /\ \A i \in Entries :
            (results[i].slate_found /\ HasPng(results[i])) =>
              /\ results[i].png_filename \in DOMAIN m
              /\ m[results[i].png_filename].video_path = results[i].video_path

\* C7.  The confidence is_slate_frame returns is within [0, 1]; when the
\* structural gate fails (or the frame is None) it is 0 and is_slate is false,
\* and when the gate passes is_slate is true.
C7_ConfidenceInUnitInterval ==
  cls # <<>> =>
    LET c == cls[1]
        gate == /\ frame # NoFrame
                /\ 2 * frame[1] > FramePixels
                /\ 200 * frame[2] > FramePixels
                /\ 5 * frame[2] < 2 * FramePixels
    IN /\ c.confidence >= 0
       /\ c.confidence <= Scale
       /\ c.is_slate = gate
       /\ ~gate => c.confidence = 0

\* C7's case: a frame that passes the gate with white coverage of 30% or more,
\* where the coverage term of the confidence is negative.
C7_Witness ==
  /\ cls # <<>>
  /\ frame # NoFrame
  /\ cls[1].is_slate
  /\ 10 * frame[2] >= 3 * FramePixels
  /\ 5 * Abs(10 * frame[2] - FramePixels) > 10 * FramePixels
  /\ cls[1].confidence > 0

\* C8 (stated as claimed; the code violates it).  In always-persist mode every
\* result that reports an accepted slate and no error has a non-null
\* png_filename, and two such results of distinct videos have distinct
\* png_filenames.
C8_AlwaysPersistDistinctNames ==
  ~self.once_per_folder =>
    LET accepted == { i \in Entries : results[i].slate_found /\ Clean(results[i]) }
    IN /\ \A i \in accepted : HasPng(results[i])
       /\ \A i, j \in accepted :
            results[i].video_path # results[j].video_path =>
              results[i].png_filename # results[j].png_filename

\* C9 (stated as claimed; the code violates it).  No invocation of
\* process_video ends with its handle still held.
C9_HandleReleasedOnExit ==
  \A v \in video_files : pc[v] = "done" => ~cap[v].held

\* C10 (stated as claimed; the code violates it).  The result of a video that
\* does not open, or that opens and delivers no frame at all, has a non-null
\* error.
C10_DecodeFailureIsAnError ==
  \A v \in video_files :
    (pc[v] = "done" /\ (~video[v].opens \/ video[v].frames = <<>>)) => ~Clean(result[v])

\* C11 (stated as claimed; the code violates it).  Neither artifact is written
\* before every future has been collected, what is written holds every result,
\* and no state has one artifact of the run without the other.
C11_ArtifactsWrittenTogether ==
  /\ (metadata # NotWritten \/ mapping # NotWritten) => uncollected = {} /\ opc # "submit"
  /\ metadata # NotWritten => metadata[1].videos = results
  /\ mapping # NotWritten => mapping[1] = BuildMapping(results, EmptyMap)
  /\ (metadata # NotWritten) = (mapping # NotWritten)

\* the candidate process_video ended its search with is a frame that was read,
\* passes the gate and has a confidence of at least the threshold
CandidateQualifies(v) ==
  LET f == loc[v].best_slate_frame
  IN /\ f # NoFrame
     /\ 2 * f[1] > FramePixels /\ 200 * f[2] > FramePixels /\ 5 * f[2] < 2 * FramePixels
     /\ loc[v].best_confidence = Min2(RawConfidence(f), Scale)
     /\ loc[v].best_confidence >= self.threshold

\* C12 (stated as claimed; the code violates it).  Once the search is over, the
\* result reports slate_found = true exactly when the best candidate is a read
\* frame, classified a slate, of confidence >= threshold (a result ended by an
\* exception aside for the 'if' direction).
C12_SlateFoundIffCandidateQualifies ==
  \A v \in video_files :
    /\ result[v].slate_found => CandidateQualifies(v)
    /\ (pc[v] \in {"persist", "done"} /\ Clean(result[v]) /\ CandidateQualifies(v)) =>
         result[v].slate_found

\* what the classifier says of frame i of video v
ClassOf(v, i) == is_slate_frame(video[v].frames[i + 1])

\* C13.  While and after the fallback scan runs, its candidate is the slate of
\* highest confidence among the frames the scan has read so far and, among the
\* slates of that confidence, the one of smallest index; with no slate read
\* there is no candidate.  (Being the maximum over a growing prefix, the
\* candidate's confidence never decreases.)
C13_ScanKeepsFirstBest ==
  \A v \in video_files :
    (pc[v] = "scan" \/ loc[v].frame_num >= 1) =>
      LET n == loc[v].frame_num
          slates == { i \in 0..(n - 1) : ClassOf(v, i).is_slate }
      IN /\ n <= Len(video[v].frames)
         /\ IF slates = {}
              THEN /\ loc[v].best_frame_number = -1
                   /\ loc[v].best_confidence = 0
                   /\ loc[v].best_slate_frame = NoFrame
              ELSE /\ loc[v].best_frame_number \in slates
                   /\ loc[v].best_confidence =
                        ClassOf(v, loc[v].best_frame_number).confidence
                   /\ loc[v].best_slate_frame = video[v].frames[loc[v].best_frame_number + 1]
                   /\ \A i \in slates :
                        /\ ClassOf(v, i).confidence <= loc[v].best_confidence
                        /\ ClassOf(v, i).confidence = loc[v].best_confidence =>
                             i >= loc[v].best_frame_number

\* C13's case: a scan that met a weaker slate first and then two slates of the
\* same, highest confidence, and returned the first of the two.
C13_Witness ==
  \E v \in video_files :
    /\ pc[v] = "done"
    /\ loc[v].frame_num = 3
    /\ ClassOf(v, 0).is_slate
    /\ ClassOf(v, 0).confidence < ClassOf(v, 1).confidence
    /\ ClassOf(v, 2).confidence = ClassOf(v, 1).confidence
    /\ result[v].slate_found
    /\ result[v].frame_number = 1

\* the fallback scan of v was entered with a bound beyond the frames the
\* decoder delivers, so that one of its reads fails
ScanCutShort(v) ==
  /\ pc[v] \in {"scan", "release", "persist", "done"}
  /\ Len(video[v].frames) < loc[v].frames_to_check

\* the highest confidence of a slate among the first n frames of v, 0 if none
RECURSIVE MaxConfidence(_, _)
MaxConfidence(v, n) ==
  IF n = 0 THEN 0 ELSE Max2(ClassOf(v, n - 1).confidence, MaxConfidence(v, n - 1))

\* C14.  When a read of the fallback scan fails, no later frame is read: the
\* scan has read the frames before the failure, made one failing read and
\* stopped.  The error is null when the scan stops; an image about to be
\* written is a frame that was read; and a result returned without an exception
\* reports a slate exactly when the best slate before the failure meets the
\* threshold, with that slate's confidence and index.
C14_FailedReadStopsScan ==
  \A v \in video_files :
    ScanCutShort(v) =>
      LET n == Len(video[v].frames)
          best == MaxConfidence(v, n)
      IN /\ loc[v].frame_num <= n
         /\ reads[v] <= 1 + n + 1
         /\ pc[v] \in {"release", "persist"} => loc[v].frame_num = n /\ Clean(result[v])
         /\ pc[v] = "persist" => loc[v].best_slate_frame # NoFrame
         /\ (pc[v] \in {"persist", "done"} /\ Clean(result[v])) =>
              /\ result[v].slate_found = (best >= self.threshold)
              /\ result[v].slate_found =>
                   /\ result[v].confidence = best
                   /\ result[v].frame_number \in 0..(n - 1)
                   /\ ClassOf(v, result[v].frame_number).confidence = best

\* C14's cases: a scan that read two frames and then failed, with frames left
\* to check, returning the slate it had found; and one returning no detection.
C14_Witness ==
  \E v \in video_files :
    /\ ScanCutShort(v)
    /\ pc[v] = "done"
    /\ Len(video[v].frames) = 2
    /\ loc[v].frames_to_check >= 3
    /\ reads[v] = 4
    /\ result[v].slate_found
    /\ result[v].frame_number = 1
    /\ HasPng(result[v])
    /\ Clean(result[v])

\* C15.  The fallback scan reads frame 0, 1, 2, ... in turn: whenever it is
\* about to read, the position of the handle is the number of frames it has
\* read, which is below min(frames_to_check, 2 * frame_rate, total_frames); it
\* never reads more frames than that bound, and none when total_frames is 0.
C15_FallbackWithinBound ==
  \A v \in video_files :
    LET bound == Min2(Min2(self.frames_to_check, 2 * loc[v].fps), loc[v].total_frames)
    IN /\ pc[v] = "scan" =>
            /\ cap[v].pos = loc[v].frame_num
            /\ loc[v].frame_num >= 0
            /\ loc[v].frame_num < bound
       /\ loc[v].frame_num <= Max2(0, bound)
       /\ loc[v].total_frames = 0 =>
            /\ pc[v] # "scan"
            /\ loc[v].frame_num = 0
            /\ reads[v] <= 1

\* C15's case: a video with more frames than the bound, scanned up to the
\* bound and no further.
C15_Witness ==
  \E v \in video_files :
    /\ pc[v] = "done"
    /\ loc[v].frame_num = 2
    /\ loc[v].frames_to_check = 2
    /\ Len(video[v].frames) > 2
    /\ reads[v] = 3
    /\ Clean(result[v])

\* C16.  In always-persist mode the folder set of every detector instance is
\* empty, whatever has been processed.
C16_NoBookkeepingWhenAlwaysPersist ==
  ~self.once_per_folder => \A i \in Instances : saved_folders[i] = {}

\* C16's case: two accepted slates of one folder processed and saved by one
\* detector in always-persist mode.
C16_Witness ==
  /\ ~self.once_per_folder
  /\ \A v \in {1, 2} : /\ pc[v] = "done"
                       /\ result[v].slate_found
                       /\ HasPng(result[v])
  /\ Folder(1) = Folder(2)
  /\ saved_folders[0] = {}

\* C17 (stated as claimed; the code violates it).  In once-per-folder mode, on
\* one detector with no call in progress, every folder of saved_folders has a
\* result with a non-null png_filename, and every accepted slate is either
\* persisted itself or in a folder of which another video's slate is persisted.
C17_SavedFolderHasImage ==
  (self.once_per_folder /\ Running = {}) =>
    /\ \A f \in saved_folders[0] :
         \E v \in video_files : Folder(v) = f /\ pc[v] = "done" /\ HasPng(result[v])
    /\ \A v \in video_files :
         (pc[v] = "done" /\ result[v].slate_found) =>
           \E w \in video_files : Folder(w) = Folder(v) /\ pc[w] = "done" /\ HasPng(result[w])

\* C18 (stated as claimed; the code violates it).  Every result with
\* slate_found = true has a frame_number that is the index of a frame read
\* from its video, 0 <= frame_number < total_frames, and the candidate frame
\* is the frame of that index.
C18_FrameNumberIsReadIndex ==
  \A v \in video_files :
    result[v].slate_found =>
      /\ result[v].frame_number >= 0
      /\ result[v].frame_number < loc[v].total_frames
      /\ ReadOk(v, result[v].frame_number)
      /\ loc[v].best_slate_frame = FrameAt(v, result[v].frame_number)

====
